---- MODULE Spec2Model ----
(***************************************************************************)
(* DatabaseManager (databaseManager.py): a wrapper around one sqlite3      *)
(* connection and one "current table name".                                *)
(*                                                                         *)
(* The state is the instance's table_name, its connection (open or         *)
(* closed), the content of the database file behind it, and a record of    *)
(* the most recent call (method, argument, outcome, return value and the   *)
(* driver calls it issued).  Each method is one action.                    *)
(*                                                                         *)
(* Python values are records [k, h, s]: k is the runtime type ("int",      *)
(* "float", "str"), h the numeric value counted in halves (so 1 is h = 2   *)
(* and 1.5 is h = 3), s the text of a str.                                 *)
(***************************************************************************)
EXTENDS Integers, Sequences, FiniteSets

VARIABLES table_name, conn, db, last

vars == <<table_name, conn, db, last>>

-----------------------------------------------------------------------------
(* Bounds *)

\* The number of rows the database file holds at most, all tables together.
MaxRows == 3

\* The length of the longest list handed to save_list_to_database.
MaxLen == 2

-----------------------------------------------------------------------------
(* Python values *)

PyInt(n) == [k |-> "int", h |-> 2 * n, s |-> ""]

PyFloat(halves) == [k |-> "float", h |-> halves, s |-> ""]

PyStr(t) == [k |-> "str", h |-> 0, s |-> t]

None == [k |-> "NoneType", h |-> 0, s |-> ""]

IsNumber(v) == v.k \in {"int", "float"}

\* Mutant: the inferred type is dropped for create_table's default.
TypeName_m(v) == "REAL"

\* type(v).__name__
TypeName(v) == v.k

\* The values callers store: the int 1 and the str '2'.
Elements == {PyInt(1), PyStr("2")}

Lists == UNION {[1..n -> Elements] : n \in 0..MaxLen}

TableNames == {"my_table", "t2"}

\* The element_type arguments callers pass to create_table.
ElementTypes == {"REAL", "INTEGER", "TEXT"}

-----------------------------------------------------------------------------
(* The database engine behind sqlite3.connect: column type affinity *)

DigitStr(n) ==
    CASE n = 0 -> "0" [] n = 1 -> "1" [] n = 2 -> "2" [] n = 3 -> "3"
      [] n = 4 -> "4" [] n = 5 -> "5" [] n = 6 -> "6" [] n = 7 -> "7"
      [] n = 8 -> "8" [] n = 9 -> "9" [] OTHER -> "?"

\* The text of a float counted in halves: 3 is "1.5", 4 is "2.0".
FloatText(h) == DigitStr(h \div 2) \o (IF h % 2 = 0 THEN ".0" ELSE ".5")

\* The text the engine stores for a number in a TEXT column.
TextOf(v) == IF v.k = "int" THEN DigitStr(v.h \div 2) ELSE FloatText(v.h)

\* A str that is a well-formed integer or real literal, as the number it
\* denotes; any other value as it is.
ParseNumber(v) ==
    IF v.k # "str" THEN v
    ELSE IF \E n \in 0..9 : v.s = DigitStr(n)
         THEN PyInt(CHOOSE n \in 0..9 : v.s = DigitStr(n))
    ELSE IF \E h \in 0..19 : v.s = FloatText(h)
         THEN PyFloat(CHOOSE h \in 0..19 : v.s = FloatText(h))
    ELSE v

\* The affinity of a declared column type: the engine looks for INT, then
\* CHAR/CLOB/TEXT, then BLOB or no type, then REAL/FLOA/DOUB in the type's
\* name without regard to case; any other name is NUMERIC.
Affinity(declared) ==
    CASE declared \in {"INTEGER", "int", "INT64",
                       "INTEGER PRIMARY KEY AUTOINCREMENT"} -> "INTEGER"
      [] declared \in {"TEXT"} -> "TEXT"
      [] declared \in {""} -> "BLOB"
      [] declared \in {"REAL", "float", "FLOAT64"} -> "REAL"
      [] OTHER -> "NUMERIC"

\* The value a column of affinity aff stores when v is inserted.
ApplyAffinity(aff, v) ==
    LET n == ParseNumber(v)
        asInt == IF n.k = "float" /\ n.h % 2 = 0 THEN PyInt(n.h \div 2) ELSE n
    IN CASE aff = "TEXT" -> IF IsNumber(v) THEN PyStr(TextOf(v)) ELSE v
         [] aff \in {"INTEGER", "NUMERIC"} -> asInt
         [] aff = "REAL" -> IF asInt.k = "int" THEN PyFloat(asInt.h) ELSE asInt
         [] OTHER -> v

-----------------------------------------------------------------------------
(* The database file: one entry per table name *)

Absent == [exists |-> FALSE, cols |-> <<>>, rows |-> <<>>]

Column(name, declared) == [name |-> name, type |-> declared]

NewTable(cols) == [exists |-> TRUE, cols |-> cols, rows |-> <<>>]

\* The columns of lines 21-24: (id INTEGER PRIMARY KEY AUTOINCREMENT,
\* list_element <element_type>).
ScalarCols(element_type) ==
    <<Column("id", "INTEGER PRIMARY KEY AUTOINCREMENT"),
      Column("list_element", element_type)>>

EmptyFile == [t \in TableNames |-> Absent]

\* str.upper() on the names that occur.
Upper(t) ==
    CASE t = "a" -> "A" [] t = "b" -> "B" [] t = "c" -> "C" [] t = "d" -> "D"
      [] t = "__h" -> "__H" [] t = "count" -> "COUNT"
      [] t = "id" -> "ID" [] t = "list_element" -> "LIST_ELEMENT"
      [] t = "str" -> "STR" [] t = "int64" -> "INT64"
      [] t = "float64" -> "FLOAT64" [] t = "bool" -> "BOOL"
      [] OTHER -> t

\* The position of the column called name (names match without regard to
\* case), 0 when the table has none.
ColumnIndex(tbl, name) ==
    IF \E i \in 1..Len(tbl.cols) : Upper(tbl.cols[i].name) = Upper(name)
    THEN CHOOSE i \in 1..Len(tbl.cols) : Upper(tbl.cols[i].name) = Upper(name)
    ELSE 0

RECURSIVE SumRows(_, _)
SumRows(d, names) ==
    IF names = {} THEN 0
    ELSE LET t == CHOOSE x \in names : TRUE
         IN Len(d[t].rows) + SumRows(d, names \ {t})

TotalRows(d) == SumRows(d, TableNames)

\* Mutant: the table is created anew even when it exists.
ExecCreateIfNotExists_m(d, tn, cols) == [d EXCEPT ![tn] = NewTable(cols)]

\* CREATE TABLE IF NOT EXISTS tn (cols)
ExecCreateIfNotExists(d, tn, cols) ==
    IF d[tn].exists THEN d ELSE [d EXCEPT ![tn] = NewTable(cols)]

\* Mutant: the drop empties the whole file.
ExecDropIfExists_m(d, tn) == [t \in DOMAIN d |-> Absent]

\* DROP TABLE IF EXISTS tn
ExecDropIfExists(d, tn) == [d EXCEPT ![tn] = Absent]

\* INSERT INTO tn (list_element) VALUES (?): a new row whose id is the next
\* AUTOINCREMENT value and whose other columns are NULL.
ExecInsertElement(d, tn, v) ==
    LET tbl == d[tn]
        at  == ColumnIndex(tbl, "list_element")
        row == [i \in 1..Len(tbl.cols) |->
                  IF i = at THEN ApplyAffinity(Affinity(tbl.cols[i].type), v)
                  ELSE IF Upper(tbl.cols[i].name) = "ID"
                       THEN PyInt(Len(tbl.rows) + 1)
                  ELSE None]
    IN [d EXCEPT ![tn].rows = Append(tbl.rows, row)]

\* INSERT INTO tn VALUES (?, ..., ?): the values bound to the columns by
\* position.
ExecInsertRow(d, tn, values) ==
    LET tbl == d[tn]
        row == [i \in 1..Len(tbl.cols) |->
                  ApplyAffinity(Affinity(tbl.cols[i].type), values[i])]
    IN [d EXCEPT ![tn].rows = Append(tbl.rows, row)]

RECURSIVE InsertElements_m(_, _, _)
\* Mutant: the loop inserts the list from its last element to its first.
InsertElements_m(d, tn, element_list) ==
    IF element_list = <<>> THEN d
    ELSE ExecInsertElement(InsertElements_m(d, tn, Tail(element_list)), tn,
                           Head(element_list))

RECURSIVE InsertElements(_, _, _)
\* The loop of lines 86-87.
InsertElements(d, tn, element_list) ==
    IF element_list = <<>> THEN d
    ELSE InsertElements(ExecInsertElement(d, tn, Head(element_list)), tn,
                        Tail(element_list))

RECURSIVE InsertRows(_, _, _)
\* executemany of line 100.
InsertRows(d, tn, tuples) ==
    IF tuples = <<>> THEN d
    ELSE InsertRows(ExecInsertRow(d, tn, Head(tuples)), tn, Tail(tuples))

-----------------------------------------------------------------------------
(* Records (pandas rows) and frames *)

\* One field of a record: its label, the runtime type name of its value,
\* whether getattr(obj, label) is callable, and the value.
Field(attr, tname, isCallable, value) ==
    [attr |-> attr, tname |-> tname, callable |-> isCallable, value |-> value]

RecABC ==
    <<Field("a", "int64", FALSE, PyInt(1)),
      Field("b", "str", FALSE, PyStr("a")),
      Field("c", "float64", FALSE, PyFloat(3))>>

RecABC2 ==
    <<Field("a", "int64", FALSE, PyInt(2)),
      Field("b", "str", FALSE, PyStr("2")),
      Field("c", "float64", FALSE, PyFloat(4))>>

\* A label with the reserved prefix, a label that names a method of the
\* record (so getattr gives a callable), and a field of an unmapped type.
RecMixed ==
    <<Field("__h", "str", FALSE, PyStr("a")),
      Field("count", "int64", TRUE, PyInt(1)),
      Field("d", "bool", FALSE, [k |-> "bool", h |-> 2, s |-> ""])>>

\* Every label has the reserved prefix.
RecHidden == <<Field("__h", "str", FALSE, PyStr("a"))>>

Records == {RecABC, RecMixed, RecHidden}

\* A frame is the sequence of its rows; frame.empty is Len = 0.
Frames == {<<>>, <<RecABC>>, <<RecABC, RecABC2>>}

\* attr.startswith("__")
StartsWithDunder(attr) == attr \in {"__h"}

\* The names bound at module level (lines 1-5); a bare name inside a method
\* that is neither local nor one of these raises NameError.
ModuleGlobals == {"sqlite3", "List", "pd", "DatabaseManager"}

\* The lookup table of lines 47-51, with dict.get's default.
column_types(t) ==
    CASE t = "STR" -> "TEXT"
      [] t = "INT64" -> "INTEGER"
      [] t = "FLOAT64" -> "REAL"
      [] OTHER -> t

KeptField(f) == ~f.callable /\ ~StartsWithDunder(f.attr)

\* Lines 44-59: the columns derived from a record.  The joined text is
\* upper-cased as a whole (line 45), so the type names are upper-cased
\* before the lookup and an unmapped one stays upper-cased.
updated_columns(obj) ==
    LET kept == SelectSeq(obj, KeptField)
    IN [i \in 1..Len(kept) |->
          Column(Upper(kept[i].attr), column_types(Upper(kept[i].tname)))]

-----------------------------------------------------------------------------
(* The methods, as functions of the instance's state: each gives the       *)
(* database afterwards, the outcome ("ok" or the exception raised) and the *)
(* driver calls issued, the failing one included.                          *)

Result(d, outcome, calls) == [db |-> d, outcome |-> outcome, calls |-> calls]

\* Lines 13-26.
CreateTable(d, c, tn, element_type) ==
    IF c = "closed" THEN Result(d, "ProgrammingError", <<"execute">>)
    ELSE Result(ExecCreateIfNotExists(d, tn, ScalarCols(element_type)), "ok",
                <<"execute", "commit">>)

\* Lines 28-66.  With no field kept, line 53 splits the empty text into
\* [''] and the unpacking of line 56 raises ValueError.  Line 66 commits
\* through the bare name conn.
CreateTableForObject(d, c, tn, obj) ==
    IF SelectSeq(obj, KeptField) = <<>> THEN Result(d, "ValueError", <<>>)
    ELSE IF c = "closed" THEN Result(d, "ProgrammingError", <<"execute">>)
    ELSE LET created == ExecCreateIfNotExists(d, tn, updated_columns(obj))
         IN IF "conn" \notin ModuleGlobals
            THEN Result(created, "NameError", <<"execute">>)
            ELSE Result(created, "ok", <<"execute", "commit">>)

\* Mutant: the drop goes through although the connection is closed.
DeleteTable_m(d, c, tn) ==
    Result(ExecDropIfExists(d, tn), "ok", <<"execute", "commit">>)

\* Lines 68-74.
DeleteTable(d, c, tn) ==
    IF c = "closed" THEN Result(d, "ProgrammingError", <<"execute">>)
    ELSE Result(ExecDropIfExists(d, tn), "ok", <<"execute", "commit">>)

\* Mutant: the table is created before the first element is looked at.
SaveListToDatabase_m(d, c, tn, element_list) ==
    LET r == CreateTable(d, c, tn, "REAL")
    IN IF element_list = <<>> THEN Result(r.db, "IndexError", r.calls)
       ELSE IF r.outcome # "ok" THEN r
       ELSE IF ColumnIndex(r.db[tn], "list_element") = 0
            THEN Result(r.db, "OperationalError", r.calls \o <<"execute">>)
       ELSE Result(InsertElements(r.db, tn, element_list), "ok",
                   r.calls \o [i \in 1..Len(element_list) |-> "execute"]
                           \o <<"commit">>)

\* Lines 76-88.  element_list[0] raises IndexError on an empty list; the
\* first INSERT fails when the table has no list_element column.
SaveListToDatabase(d, c, tn, element_list) ==
    IF element_list = <<>> THEN Result(d, "IndexError", <<>>)
    ELSE LET element_type == TypeName(element_list[1])
             r == CreateTable(d, c, tn, element_type)
         IN IF r.outcome # "ok" THEN r
            ELSE IF ColumnIndex(r.db[tn], "list_element") = 0
                 THEN Result(r.db, "OperationalError",
                             r.calls \o <<"execute">>)
            ELSE Result(InsertElements(r.db, tn, element_list), "ok",
                        r.calls \o [i \in 1..Len(element_list) |-> "execute"]
                                \o <<"commit">>)

\* tuple(row) of line 98.
RowTuple(rec) == [i \in 1..Len(rec) |-> rec[i].value]

\* Mutant: no test for an empty frame.
SaveObjectList_m(d, c, tn, list_of_objects) ==
    IF "create_table_for_object" \notin ModuleGlobals
    THEN Result(d, "NameError", <<>>)
    ELSE Result(d, "ok", <<>>)

\* Lines 90-102.  Line 95 calls create_table_for_object as a bare name.
SaveObjectList(d, c, tn, list_of_objects) ==
    IF list_of_objects = <<>> THEN Result(d, "ok", <<>>)
    ELSE IF "create_table_for_object" \notin ModuleGlobals
         THEN Result(d, "NameError", <<>>)
    ELSE LET r == CreateTableForObject(d, c, tn, list_of_objects[1])
             list_of_tuples == [i \in 1..Len(list_of_objects) |->
                                  RowTuple(list_of_objects[i])]
         IN IF r.outcome # "ok" THEN r
            ELSE IF Len(list_of_tuples[1]) # Len(r.db[tn].cols)
                 THEN Result(r.db, "OperationalError",
                             r.calls \o <<"executemany">>)
            ELSE Result(InsertRows(r.db, tn, list_of_tuples), "ok",
                        r.calls \o <<"executemany", "commit">>)

\* [item[0] for item in result] of line 124.
ElementColumn(tbl) ==
    LET at == ColumnIndex(tbl, "list_element")
    IN [i \in 1..Len(tbl.rows) |-> tbl.rows[i][at]]

\* A call as recorded in last.
Call(op, arg, outcome, ret, calls) ==
    [op |-> op, arg |-> arg, outcome |-> outcome, ret |-> ret, calls |-> calls]

-----------------------------------------------------------------------------
(* Construction *)

\* A database file left by an earlier session: my_table exists already,
\* with a list_element column of type int.
ExistingFile == [EmptyFile EXCEPT !["my_table"] = NewTable(ScalarCols("int"))]

InitialFiles == {EmptyFile, ExistingFile}

\* __init__, lines 6-11: connect, then create_table() with its default
\* element_type.  last.arg is the file as it was found.
Init ==
    \E tn \in TableNames, file \in InitialFiles :
        LET r == CreateTable(file, "open", tn, "REAL")
        IN /\ table_name = tn
           /\ conn = "open"
           /\ db = r.db
           /\ last = Call("__init__", file, r.outcome, None,
                          <<"connect", "cursor">> \o r.calls)

-----------------------------------------------------------------------------
(* The methods as actions *)

create_table(element_type) ==
    LET r == CreateTable(db, conn, table_name, element_type)
    IN /\ db' = r.db
       /\ last' = Call("create_table", element_type, r.outcome, None, r.calls)
       /\ UNCHANGED <<table_name, conn>>

create_table_for_object(obj) ==
    LET r == CreateTableForObject(db, conn, table_name, obj)
    IN /\ db' = r.db
       /\ last' = Call("create_table_for_object", obj, r.outcome, None, r.calls)
       /\ UNCHANGED <<table_name, conn>>

delete_table ==
    LET r == DeleteTable(db, conn, table_name)
    IN /\ db' = r.db
       /\ last' = Call("delete_table", None, r.outcome, None, r.calls)
       /\ UNCHANGED <<table_name, conn>>

save_list_to_database(element_list) ==
    LET r == SaveListToDatabase(db, conn, table_name, element_list)
    IN /\ TotalRows(r.db) <= MaxRows
       /\ db' = r.db
       /\ last' = Call("save_list_to_database", element_list, r.outcome, None,
                       r.calls)
       /\ UNCHANGED <<table_name, conn>>

save_object_list(list_of_objects) ==
    LET r == SaveObjectList(db, conn, table_name, list_of_objects)
    IN /\ TotalRows(r.db) <= MaxRows
       /\ db' = r.db
       /\ last' = Call("save_object_list", list_of_objects, r.outcome, None,
                       r.calls)
       /\ UNCHANGED <<table_name, conn>>

\* Mutant: the new name's table is created, as at construction.
set_table_name_m(new_table_name) ==
    LET r == CreateTable(db, conn, new_table_name, "REAL")
    IN /\ table_name' = new_table_name
       /\ db' = r.db
       /\ last' = Call("set_table_name", new_table_name, "ok", None, r.calls)
       /\ UNCHANGED conn

\* Lines 105-113.
set_table_name(new_table_name) ==
    /\ table_name' = new_table_name
    /\ last' = Call("set_table_name", new_table_name, "ok", None, <<>>)
    /\ UNCHANGED <<conn, db>>

\* Lines 115-124.
get_element_list ==
    /\ last' =
         IF conn = "closed"
         THEN Call("get_element_list", None, "ProgrammingError", None,
                   <<"execute">>)
         ELSE IF ~db[table_name].exists
                 \/ ColumnIndex(db[table_name], "list_element") = 0
              THEN Call("get_element_list", None, "OperationalError", None,
                        <<"execute">>)
         ELSE Call("get_element_list", None, "ok",
                   ElementColumn(db[table_name]), <<"execute", "fetchall">>)
    /\ UNCHANGED <<table_name, conn, db>>

\* Lines 126-132.
get_all ==
    /\ last' =
         IF conn = "closed"
         THEN Call("get_all", None, "ProgrammingError", None, <<"execute">>)
         ELSE IF ~db[table_name].exists
              THEN Call("get_all", None, "OperationalError", None,
                        <<"execute">>)
         ELSE Call("get_all", None, "ok", db[table_name].rows,
                   <<"execute", "fetchall">>)
    /\ UNCHANGED <<table_name, conn, db>>

\* Lines 134-138; closing a closed connection is accepted by the driver.
close_connection ==
    /\ conn' = "closed"
    /\ last' = Call("close_connection", None, "ok", None, <<"close">>)
    /\ UNCHANGED <<table_name, db>>

Next ==
    \/ \E element_type \in ElementTypes : create_table(element_type)
    \/ \E obj \in Records : create_table_for_object(obj)
    \/ delete_table
    \/ \E element_list \in Lists : save_list_to_database(element_list)
    \/ \E list_of_objects \in Frames : save_object_list(list_of_objects)
    \/ \E new_table_name \in TableNames : set_table_name(new_table_name)
    \/ get_element_list
    \/ get_all
    \/ close_connection

Spec == Init /\ [][Next]_vars

-----------------------------------------------------------------------------
(* Properties.  An action formula reads the state before a call unprimed   *)
(* and the call itself (last') and the state after it primed.              *)

Active == db[table_name]

\* Python's ==: numbers compare by value across int and float, a str only
\* equals a str with the same text.
PyEq(x, y) ==
    IF IsNumber(x) /\ IsNumber(y) THEN x.h = y.h
    ELSE IF x.k = "str" /\ y.k = "str" THEN x.s = y.s
    ELSE x = y

SeqPyEq(xs, ys) ==
    /\ Len(xs) = Len(ys)
    /\ \A i \in 1..Len(xs) : PyEq(xs[i], ys[i])

DriverOps ==
    {"create_table", "create_table_for_object", "delete_table",
     "save_list_to_database", "get_element_list", "get_all"}

StoreOps == DriverOps \cup {"save_object_list", "set_table_name"}

\* What a list_element column declared with the given type gives back for
\* the int 1 and the str '2', by the engine's documented affinity rules.
ReadBack(declared, v) ==
    CASE declared \in {"REAL", "float"} ->
           IF v = PyInt(1) THEN PyFloat(2) ELSE PyFloat(4)
      [] declared \in {"INTEGER", "int", "str"} ->
           IF v = PyInt(1) THEN PyInt(1) ELSE PyInt(2)
      [] declared = "TEXT" ->
           IF v = PyInt(1) THEN PyStr("1") ELSE PyStr("2")
      [] OTHER -> v

\* C1 as stated: a successful save_list_to_database(L) followed at once by
\* get_element_list() returns exactly the elements of L, in L's order.
C1_SaveThenGetReturnsL ==
    [][(/\ last.op = "save_list_to_database"
        /\ last.outcome = "ok"
        /\ last'.op = "get_element_list")
       => (last'.outcome = "ok" /\ SeqPyEq(last'.ret, last.arg))]_vars

\* C1 amended: a successful save_list_to_database(L) appends to the
\* list_element values the active table held before (none when it was
\* absent) the elements of L in L's order, each as the column's type
\* affinity converts it; get_element_list() right after it returns exactly
\* that column.
C1_SaveAppendsConverted ==
    [][/\ (last'.op = "save_list_to_database" /\ last'.outcome = "ok")
          => LET L == last'.arg
                 declared == Active'.cols[2].type
             IN /\ Active'.exists
                /\ Active'.cols[2].name = "list_element"
                /\ ElementColumn(Active') =
                     ElementColumn(Active)
                       \o [i \in 1..Len(L) |-> ReadBack(declared, L[i])]
       /\ (/\ last.op = "save_list_to_database"
           /\ last.outcome = "ok"
           /\ last'.op = "get_element_list")
          => (last'.outcome = "ok" /\ last'.ret = ElementColumn(Active))]_vars

\* A save onto a table that held a row already, which stored the str '2'
\* as a number.
C1_Witness ==
    /\ last.op = "save_list_to_database"
    /\ last.outcome = "ok"
    /\ last.arg = <<PyStr("2")>>
    /\ Len(Active.rows) = 2
    /\ ~PyEq(Active.rows[2][2], PyStr("2"))

C3_SaveObjectListRoundTrip ==
    [][(/\ last'.op = "save_object_list"
        /\ last'.arg # <<>>
        /\ conn = "open"
        /\ ~Active.exists)
       => /\ last'.outcome = "ok"
          /\ Active'.exists
          /\ Active'.rows = [i \in 1..Len(last'.arg) |-> RowTuple(last'.arg[i])]
          /\ \A i \in 1..Len(Active'.cols) :
                Active'.cols[i].name = Upper(last'.arg[1][i].attr)]_vars

\* C4: save_list_to_database([]) fails on the empty list before any driver
\* call and leaves the database, the active table name and the connection
\* as they were.
C4_EmptyListRejected ==
    [][(last'.op = "save_list_to_database" /\ last'.arg = <<>>)
       => /\ last'.outcome = "IndexError"
          /\ last'.calls = <<>>
          /\ db' = db
          /\ table_name' = table_name
          /\ conn' = conn]_vars

\* An empty list refused while the active table is absent.
C4_Witness ==
    /\ last.op = "save_list_to_database"
    /\ last.arg = <<>>
    /\ last.outcome = "IndexError"
    /\ conn = "open"
    /\ ~Active.exists

\* The type the claim gives a field: the three mapped names, any other
\* runtime type name as it is.
C5_ClaimedType(tname) ==
    CASE tname = "str" -> "TEXT"
      [] tname = "int64" -> "INTEGER"
      [] tname = "float64" -> "REAL"
      [] OTHER -> tname

\* C5: create_table_for_object of a record with a usable field, on an open
\* store whose active table is absent, returns without error and creates
\* the table with one column per usable field, in field order, upper-cased,
\* with the mapped type; on an existing table it returns without error and
\* changes nothing.
C5_CreateTableForObject ==
    [][(/\ last'.op = "create_table_for_object"
        /\ SelectSeq(last'.arg, KeptField) # <<>>
        /\ conn = "open")
       => /\ last'.outcome = "ok"
          /\ IF Active.exists THEN db' = db
             ELSE LET kept == SelectSeq(last'.arg, KeptField)
                  IN /\ Active'.exists
                     /\ Active'.cols =
                          [i \in 1..Len(kept) |->
                             Column(Upper(kept[i].attr),
                                    C5_ClaimedType(kept[i].tname))]]_vars

\* C6: create_table on an existing active table raises nothing and leaves
\* the whole database as it was, and no call changes the columns of a
\* table that exists before and after it.
C6_CreateTableIdempotent ==
    [][/\ (last'.op = "create_table" /\ conn = "open" /\ Active.exists)
          => (last'.outcome = "ok" /\ db' = db)
       /\ \A t \in TableNames :
             (db[t].exists /\ db'[t].exists) => db'[t].cols = db[t].cols]_vars

\* create_table('TEXT') on a REAL table that holds a row.
C6_Witness ==
    /\ last.op = "create_table"
    /\ last.arg = "TEXT"
    /\ last.outcome = "ok"
    /\ Active.exists
    /\ Active.cols[2].type = "REAL"
    /\ Len(Active.rows) > 0

\* C7: delete_table on an open store succeeds whether or not the active
\* table exists, leaves the table absent and every other table as it was;
\* a create_table right after it gives an existing scalar table with no
\* rows, and get_element_list on such a table returns the empty sequence.
C7_DeleteThenCreateIsEmpty ==
    [][/\ (last'.op = "delete_table" /\ conn = "open")
          => /\ last'.outcome = "ok"
             /\ ~Active'.exists
             /\ \A t \in TableNames \ {table_name} : db'[t] = db[t]
             /\ ~Active.exists => db' = db
       /\ (/\ last.op = "delete_table"
           /\ last.outcome = "ok"
           /\ last'.op = "create_table")
          => /\ last'.outcome = "ok"
             /\ Active' = NewTable(ScalarCols(last'.arg))
       /\ (/\ last.op = "create_table"
           /\ last.outcome = "ok"
           /\ Active = NewTable(ScalarCols(last.arg))
           /\ last'.op = "get_element_list")
          => (last'.outcome = "ok" /\ last'.ret = <<>>)]_vars

\* A delete_table on an absent active table, beside a table with rows.
C7_Witness ==
    /\ last.op = "delete_table"
    /\ last.outcome = "ok"
    /\ ~Active.exists
    /\ last.calls = <<"execute", "commit">>
    /\ TotalRows(db) > 0

\* C8: set_table_name succeeds and only replaces table_name; every other
\* call leaves table_name alone and every table but the active one as it
\* was, and reads, creates, drops and fills the active one.
C8_SetTableNameRedirects ==
    [][/\ last'.op = "set_table_name"
          => /\ last'.outcome = "ok"
             /\ table_name' = last'.arg
             /\ db' = db
             /\ conn' = conn
       /\ last'.op # "set_table_name" => table_name' = table_name
       /\ \A t \in TableNames \ {table_name} : db'[t] = db[t]
       /\ (last'.op = "get_element_list" /\ last'.outcome = "ok")
          => last'.ret = ElementColumn(Active)
       /\ (last'.op = "get_all" /\ last'.outcome = "ok")
          => last'.ret = Active.rows
       /\ (last'.op \in {"create_table", "save_list_to_database"}
           /\ last'.outcome = "ok")
          => Active'.exists
       /\ (last'.op = "save_list_to_database" /\ last'.outcome = "ok")
          => Len(Active'.rows) = Len(Active.rows) + Len(last'.arg)
       /\ (last'.op = "delete_table" /\ last'.outcome = "ok")
          => ~Active'.exists]_vars

\* The name set to a table that does not exist, beside one with rows.
C8_Witness ==
    /\ last.op = "set_table_name"
    /\ last.arg = "t2"
    /\ table_name = "t2"
    /\ ~db["t2"].exists
    /\ Len(db["my_table"].rows) > 0

\* C9: save_object_list of an empty frame returns without error, issues no
\* driver call (so no commit) and leaves the database, the active table
\* name and the connection as they were.
C9_EmptyFrameIsNoOp ==
    [][(last'.op = "save_object_list" /\ last'.arg = <<>>)
       => /\ last'.outcome = "ok"
          /\ last'.calls = <<>>
          /\ db' = db
          /\ table_name' = table_name
          /\ conn' = conn]_vars

\* An empty frame saved while the active table is absent.
C9_Witness ==
    /\ last.op = "save_object_list"
    /\ last.arg = <<>>
    /\ last.outcome = "ok"
    /\ conn = "open"
    /\ ~Active.exists

\* C10: the table construction creates has a list_element column of type
\* REAL; a successful save_list_to_database gives a table it creates the
\* runtime type name of the first element as the column's type, and on an
\* existing table leaves the columns as they are and only adds the rows.
C10_TypeFixedAtCreation ==
    [][/\ last.op = "__init__"
          => /\ Active.exists
             /\ ~last.arg[table_name].exists
                => Active.cols = ScalarCols("REAL")
       /\ (last'.op = "save_list_to_database" /\ last'.outcome = "ok")
          => IF Active.exists
             THEN /\ Active'.cols = Active.cols
                  /\ Len(Active'.rows) = Len(Active.rows) + Len(last'.arg)
             ELSE Active'.cols = ScalarCols(last'.arg[1].k)]_vars

\* A list of str saved into a table created from a list of int.
C10_Witness ==
    /\ last.op = "save_list_to_database"
    /\ last.outcome = "ok"
    /\ last.arg[1].k = "str"
    /\ Active.cols[2].type = "int"
    /\ Len(Active.rows) = 3

====
